---- MODULE Spec2Model ----
(***************************************************************************)
(* A model of the Brobot test-execution scripts:                           *)
(*   library/scripts/run-all-tests.py   (TestRunner, parallel/sequential)  *)
(*   library/scripts/run-tests-ci.py    (CITestRunner)                     *)
(*   library/scripts/run-tests-safe.py  (SafeTestRunner)                   *)
(*   library/scripts/run-tests.py       (batch / individual runs)          *)
(* One behaviour of the model is one execution of one of the scripts; the  *)
(* variable `script` says which.  Test units are the positions 1..N of the *)
(* sorted list the discovery function returns.  Discovery itself, from the *)
(* files under the test directory to that list, is modelled on its own     *)
(* (DiscSpec), and so is the default plan over larger lists (PlanSpec).    *)
(***************************************************************************)
EXTENDS Integers, Sequences, FiniteSets, TLC

\* ------------------------------------------------------------------ bounds
MaxUnits == 3
MaxWorkers == 2
\* identifiers of pool threads the executor may create (one more than the
\* largest worker count, so that an unbounded pool would be visible)
MaxThreads == MaxWorkers + 1
MaxBatch == 2
\* largest number the harness reports in "N tests completed, M failed"
MaxCount == 2
\* *Test.java files under the test directory, and discoveries over them
MaxFiles == 3
MaxDiscoveries == 2

Scripts == {"run-all-tests", "run-tests-ci", "run-tests-safe", "run-tests"}
Modes == {"parallel", "sequential"}
\* run-tests.py takes its mode from sys.argv[1]: any string
RtModes == {"batch", "individual", "other"}
\* --workers is type=int: zero and negative values are accepted by argparse
WorkerCounts == (0 - 1)..MaxWorkers
\* --batch-size is type=int as well
BatchSizes == (0 - 1)..MaxBatch
\* --timeout is type=int too: its default, and zero (a negative value behaves
\* as zero does)
DefaultTimeout == 60
Timeouts == {0, DefaultTimeout}
\* lane 0 is the main thread (sequential mode); 1..MaxThreads are pool threads
Lanes == 0..MaxThreads
PoolLanes == 1..MaxThreads

\* process tree of one harness invocation: the direct child (the shell or the
\* gradlew script) and a descendant of it (the Gradle/test JVM)
Procs == {"child", "desc"}
\* exit codes a harness process that returns on its own may give
ExitCodes == {0, 1}

VARIABLES
    script,        \* which script this execution runs
    N,             \* number of discovered test classes
    mode,          \* run-all-tests: --mode
    max_workers,   \* run-all-tests: --workers
    mainPc,        \* run-all-tests: position of the main thread
    batches,       \* run-all-tests: the planned batches
    submitted,     \* run-all-tests: number of futures submitted
    workQueue,     \* run-all-tests: executor work queue (batch numbers)
    threads,       \* run-all-tests: pool threads created so far
    idleSem,       \* run-all-tests: executor idle semaphore
    lane,          \* run-all-tests: per-lane state
    lock,          \* run-all-tests: self.lock is held
    results,       \* run-all-tests: self.results
    futures,       \* run-all-tests: state and result of each future
    collected,     \* run-all-tests: futures already read by as_completed
    all_results,   \* run-all-tests: all_results of run_parallel
    runCount,      \* history: times run_test_batch was entered per batch
    recorded,      \* history: outcomes that left the critical section
    success,       \* run-all-tests: <<value>> of main's success, once assigned
    batch_size,    \* run-tests-ci, run-tests-safe: --batch-size
    ci,            \* run-tests-ci: CITestRunner counters and position
    cmd,           \* run-tests-ci: one run_command_with_timeout call
    safe,          \* run-tests-safe: SafeTestRunner counters and position
    timedOutUnits, \* history: units whose harness invocation timed out
    timeout,       \* run-all-tests: --timeout
    retry,         \* run-all-tests: retry_runner and the position in its batch
    exit,          \* run-all-tests: <<exit status>> once the process has exited
    interrupted,   \* run-all-tests: the SIGINT handler has run
    reported,      \* run-all-tests: print_summary and save_results have run
    rt,            \* run-tests: counters and position
    disc           \* the catalog source and what discovery made of it

vars == <<script, N, mode, max_workers, mainPc, batches, submitted, workQueue,
          threads, idleSem, lane, lock, results, futures, collected,
          all_results, runCount, recorded, success, batch_size, ci, cmd, safe,
          timedOutUnits, timeout, retry, exit, interrupted, reported, rt,
          disc>>

\* ------------------------------------------------------------ pure helpers
Max(a, b) == IF a >= b THEN a ELSE b
Min(a, b) == IF a <= b THEN a ELSE b

\* Python's a // b (floor division) for b # 0
PyFloorDiv(a, b) == IF b > 0 THEN a \div b ELSE (0 - a) \div (0 - b)

\* Python's seq[i:j] for 0 <= i, with j clamped to the length (0-based i, j)
PySlice(s, i, j) == SubSeq(s, i + 1, Min(j, Len(s)))

\* Python's list(range(0, stop, step)) for step # 0
RECURSIVE PyRangeFrom(_, _, _)
PyRangeFrom(i, stop, step) ==
    IF step > 0
    THEN IF i < stop THEN <<i>> \o PyRangeFrom(i + step, stop, step) ELSE <<>>
    ELSE IF i > stop THEN <<i>> \o PyRangeFrom(i + step, stop, step) ELSE <<>>
PyRange(stop, step) == PyRangeFrom(0, stop, step)

\* [units[i:i+size] for i in range(0, len(units), size)]
Slices(units, size) ==
    LET starts == PyRange(Len(units), size)
    IN [k \in 1..Len(starts) |-> PySlice(units, starts[k], starts[k] + size)]

RECURSIVE Concat(_)
Concat(ss) == IF ss = <<>> THEN <<>> ELSE Head(ss) \o Concat(Tail(ss))

Range(s) == {s[i] : i \in 1..Len(s)}

\* the sorted list of discovered test classes
AllTests(n) == [i \in 1..n |-> i]
all_tests == AllTests(N)

\* a planner that gives every worker one batch
BatchSizePerWorker(n, workers) == Max(1, PyFloorDiv(n, workers))
\* run_parallel: batch_size = max(1, len(test_classes) // (self.max_workers * 4))
BatchSize(n, workers) == Max(1, PyFloorDiv(n, workers * 4))

\* ---------------------------------------------------------------- discovery
\* the *Test.java files that may lie under <module>/src/test/java, numbered
\* in the order of their class names; file 2 has "Screenshot" in its name,
\* file 3 lies under a path that contains "package-info"
FileIds == 1..MaxFiles
MatchesExclusion(f) == f = 2
PackageInfo(f) == f = 3

\* the orders in which Path.rglob may yield the files of a directory
Enumerations(files) ==
    {e \in [1..Cardinality(files) -> files] :
        \A i, j \in 1..Cardinality(files) : i # j => e[i] # e[j]}

\* sorted(test_classes)
ClassNameBefore(a, b) == a < b
Sorted(s) == SortSeq(s, ClassNameBefore)

\* run-tests-ci.py, get_test_classes lines 164-186: exclude_patterns is empty
\* unless CI=true, and a file is skipped if str(java_file), the path from the
\* file system's root through root_dir to the file, contains one of them
NeverExcluded(f) == FALSE
PathMatches(f) == disc.root_matches \/ MatchesExclusion(f)
ExcludedInCI(f) == disc.is_ci /\ PathMatches(f)

\* the tests of the loops over rglob("*Test.java")
KeptByTestRunner(f) == ~PackageInfo(f)
KeptByCI(f) == ~ExcludedInCI(f) /\ ~PackageInfo(f)

\* get_test_classes / discover_tests of the four scripts over one enumeration
\* of the directory; rglob over a directory that does not exist yields nothing
DiscoverTests(enum) ==
    LET listed == IF disc.exists THEN enum ELSE <<>>
    IN CASE script = "run-all-tests" ->
               Sorted(SelectSeq(listed, KeptByTestRunner))
         [] script = "run-tests-ci" ->
               Sorted(SelectSeq(listed, KeptByCI))
         [] script = "run-tests-safe" ->
               IF ~disc.exists THEN <<>>
               ELSE Sorted(SelectSeq(listed, KeptByTestRunner))
         [] script = "run-tests" -> listed

\* the main model starts from the list discovery returned
IdleDisc == [pc |-> "none", exists |-> TRUE, files |-> {}, is_ci |-> FALSE,
             root_matches |-> FALSE,
             found |-> <<>>, missing_reported |-> FALSE, total |-> 0,
             plan |-> <<>>, i |-> 0, invoked |-> {}, exit |-> <<>>]

\* ------------------------------------------------- run-all-tests.py: engine
\* TestRunner.run_command's return code: the process's own exit code, -1 on
\* subprocess.TimeoutExpired, -2 on any other exception
RunCommandRc(outcome) ==
    CASE outcome = "timeout" -> 0 - 1
      [] outcome = "error"   -> 0 - 2
      [] outcome = "exit0"   -> 0
      [] outcome = "exit1"   -> 1

\* TestRunner.run_single_test: the status given to a return code
RunSingleTestStatusError(rc) ==
    IF rc = 0 - 1 THEN "timeout"
    ELSE IF rc = 0 THEN "passed"
    ELSE IF rc = 0 - 2 THEN "error"
    ELSE "failed"
RunSingleTestStatus(rc) ==
    IF rc = 0 - 1 THEN "timeout"
    ELSE IF rc = 0 THEN "passed"
    ELSE "failed"

\* processes on the machine that no invocation of the runner started: the
\* runner itself, and a Gradle process of another build of the same user
NotSpawned == {"runner", "other_gradle"}

\* subprocess.run on TimeoutExpired: Popen.kill() signals the direct child only
KillChildOnly(alive) == alive \ {"child"}

\* what CITestRunner.run_test_batch looks for in the captured output: the text
\* "BUILD SUCCESSFUL", the text "tests completed", and the numbers of the
\* first match of (\d+) tests completed, (\d+) failed
NoMarkers == [success |-> FALSE, completed |-> "absent", n |-> 0, m |-> 0]
Outputs ==
    [success : BOOLEAN, completed : {"absent", "nomatch"}, n : {0}, m : {0}]
    \cup [success : BOOLEAN, completed : {"match"}, n : 0..MaxCount,
          m : 0..MaxCount]

IdleLane == [pc |-> "idle", batch |-> 0, idx |-> 0, status |-> "none",
             proc |-> {}, out |-> <<>>]

EmptyResults == [passed |-> <<>>, failed |-> <<>>, timed_out |-> <<>>,
                 skipped |-> <<>>]

InitAll ==
    /\ mainPc = "start"
    /\ batches = <<>>
    /\ submitted = 0
    /\ workQueue = <<>>
    /\ threads = {}
    /\ idleSem = 0
    /\ lane = [l \in Lanes |-> IdleLane]
    /\ lock = FALSE
    /\ results = EmptyResults
    /\ futures = <<>>
    /\ collected = {}
    /\ all_results = <<>>
    /\ runCount = <<>>
    /\ recorded = 0
    /\ success = <<>>

IdleCmd == [pc |-> "none", alive |-> {}, timeUp |-> FALSE,
            lineReady |-> FALSE, exitCode |-> 0, rc |-> 0, out |-> NoMarkers,
            viaTimeout |-> FALSE, exitedAtKill |-> FALSE, signalled |-> {}]

InitCI ==
    /\ ci = [pc |-> "start", i |-> 0, passed |-> 0, failed |-> 0,
             skipped |-> 0, timed_out |-> 0, total_tests |-> 0,
             exit |-> <<>>]
    /\ cmd = IdleCmd

InitSafe ==
    safe = [pc |-> "start", i |-> 0, j |-> 0, results |-> <<>>,
            total_passed |-> 0, total_failed |-> 0, total_skipped |-> 0,
            proc |-> {}, exit |-> <<>>]

\* retry_runner does not exist before line 302; args.retry_failed is an input
\* of the step that reads it (line 297)
IdleRetry == [pc |-> "none", retry_failed |-> FALSE, tests |-> <<>>, idx |-> 0,
              results |-> EmptyResults, max_workers |-> 0, timeout |-> 0,
              proc |-> {}]

\* main of run-all-tests.py before runner.run, lines 260-292
InitMain ==
    /\ retry = IdleRetry
    /\ exit = <<>>
    /\ interrupted = FALSE
    /\ reported = FALSE

\* run-tests.py: the lists of run_all_tests_individually, lines 65-67
InitRt ==
    rt = [pc |-> "start", i |-> 0, passed |-> 0, failed |-> 0,
          timed_out |-> 0, exit |-> <<>>]

Init ==
    /\ script \in Scripts
    /\ N \in 0..MaxUnits
    /\ disc = IdleDisc
    /\ InitAll
    /\ InitCI
    /\ InitSafe
    /\ InitMain
    /\ InitRt
    /\ timedOutUnits = 0
    /\ \/ /\ script = "run-all-tests"
          /\ mode \in Modes
          /\ max_workers \in WorkerCounts
          /\ timeout \in Timeouts
          /\ batch_size = 0
       \/ /\ script \in {"run-tests-ci", "run-tests-safe"}
          /\ batch_size \in BatchSizes
          /\ mode = "parallel" /\ max_workers = 1
          /\ timeout = DefaultTimeout
       \/ /\ script = "run-tests"
          /\ mode \in RtModes
          /\ batch_size = 0 /\ max_workers = 1
          /\ timeout = DefaultTimeout

laneVars == <<lane, lock, results, futures, runCount, recorded, workQueue,
              idleSem>>
poolVars == <<batches, submitted, threads, collected, all_results>>
cfgVars == <<script, N, mode, max_workers, batch_size, timeout, disc>>
mainVars == <<retry, exit, interrupted, reported>>
allVars == <<mainPc, laneVars, poolVars, success>>
ciVars == <<ci, cmd>>
otherVars == <<ciVars, safe>>

\* TestRunner.run, lines 173-197: compile, then discover and print the header
RunStart(compiled) ==
    /\ script = "run-all-tests"
    /\ mainPc = "start"
    /\ IF compiled
       THEN /\ mainPc' = "dispatch"
            /\ UNCHANGED success
       ELSE /\ mainPc' = "compile_failed"
            /\ success' = <<FALSE>>
    /\ UNCHANGED <<cfgVars, mainVars, rt, timedOutUnits, otherVars, laneVars, poolVars>>

\* TestRunner.run_parallel, lines 123-128: plan the batches, create the pool
RunParallelPlan ==
    /\ mainPc = "dispatch"
    /\ mode = "parallel"
    /\ IF max_workers = 0
       THEN \* ZeroDivisionError at line 124
            /\ mainPc' = "crashed"
            /\ UNCHANGED <<batches, futures, runCount>>
       ELSE /\ batches' = Slices(all_tests, BatchSize(N, max_workers))
            /\ futures' = [b \in 1..Len(batches') |->
                             [state |-> "unsubmitted", result |-> <<>>]]
            /\ runCount' = [b \in 1..Len(batches') |-> 0]
            \* ThreadPoolExecutor raises ValueError for max_workers <= 0
            /\ mainPc' = IF max_workers < 0 THEN "crashed" ELSE "submit"
    /\ UNCHANGED <<cfgVars, mainVars, rt, timedOutUnits, otherVars, submitted, workQueue, threads, idleSem, lane, lock,
                   results, collected, all_results, recorded, success>>

\* executor.submit, line 129: queue the work item, then adjust the thread count
NewThread == CHOOSE t \in PoolLanes : t \notin threads
SpawnAlways == TRUE
SpawnAllowed == Cardinality(threads) < max_workers
EnqueueSkipFirst(q, b) == IF b = 1 THEN q ELSE Append(q, b)
Enqueue(q, b) == Append(q, b)
Submit ==
    /\ mainPc = "submit"
    /\ submitted < Len(batches)
    /\ submitted' = submitted + 1
    /\ workQueue' = Enqueue(workQueue, submitted + 1)
    /\ futures' = [futures EXCEPT ![submitted + 1].state = "pending"]
    /\ IF idleSem > 0
       THEN /\ idleSem' = idleSem - 1
            /\ UNCHANGED threads
       ELSE /\ UNCHANGED idleSem
            /\ IF SpawnAllowed /\ threads # PoolLanes
               THEN threads' = threads \cup {NewThread}
               ELSE UNCHANGED threads
    /\ UNCHANGED <<cfgVars, mainVars, rt, timedOutUnits, otherVars, mainPc, batches, lane, lock, results, collected,
                   all_results, runCount, recorded, success>>

\* end of the list comprehension of line 129
SubmitDone ==
    /\ mainPc = "submit"
    /\ submitted = Len(batches)
    /\ mainPc' = "collect"
    /\ UNCHANGED <<cfgVars, mainVars, rt, timedOutUnits, otherVars, laneVars, poolVars, success>>

\* as_completed loop, lines 131-134
Collect(b) ==
    /\ mainPc = "collect"
    /\ b \in 1..Len(batches)
    /\ b \notin collected
    /\ futures[b].state = "finished"
    /\ collected' = collected \cup {b}
    /\ all_results' = all_results \o futures[b].result
    /\ UNCHANGED <<cfgVars, mainVars, rt, timedOutUnits, otherVars, mainPc, batches, submitted, threads, laneVars,
                   success>>

\* leaving the with-block (executor shutdown) and returning, lines 136-141
RunParallelReturn ==
    /\ mainPc = "collect"
    /\ collected = 1..Len(batches)
    /\ mainPc' = "summary"
    /\ UNCHANGED <<cfgVars, mainVars, rt, timedOutUnits, otherVars, laneVars, poolVars, success>>

\* the start of one iteration of run_test_batch's loop, lines 102-103 and
\* run_command lines 39-47: subprocess.run starts the shell (the lane then
\* waits for it), or fails to and run_single_test classifies the error
BeginUnit(bs, b, i, out, started) ==
    IF started
    THEN [pc |-> "wait", batch |-> b, idx |-> i, status |-> "none",
          proc |-> Procs, out |-> out]
    ELSE LET st == RunSingleTestStatus(RunCommandRc("error"))
         IN [pc |-> "lock", batch |-> b, idx |-> i, status |-> st,
             proc |-> {},
             out |-> Append(out, [class |-> bs[b][i], status |-> st])]

\* TestRunner.run, lines 201-205: the main thread runs one batch of everything
RunSequential(started) ==
    /\ mainPc = "dispatch"
    /\ mode = "sequential"
    /\ batches' = <<all_tests>>
    /\ runCount' = <<1>>
    /\ IF N = 0
       THEN /\ mainPc' = "summary"
            /\ futures' = <<[state |-> "finished", result |-> <<>>]>>
            /\ UNCHANGED lane
       ELSE /\ mainPc' = "sequential"
            /\ futures' = <<[state |-> "running", result |-> <<>>]>>
            /\ lane' = [lane EXCEPT
                          ![0] = BeginUnit(batches', 1, 1, <<>>, started)]
    /\ UNCHANGED <<cfgVars, mainVars, rt, timedOutUnits, otherVars, submitted, workQueue, threads, idleSem, lock,
                   results, collected, all_results, recorded, success>>

\* TestRunner.run, lines 210-216: summary, save, return value; the local
\* `results` (the list of result records) ends with the call
RunSummary ==
    /\ mainPc = "summary"
    /\ mainPc' = "returned"
    /\ success' = <<Len(results.failed) = 0 /\ Len(results.timed_out) = 0>>
    /\ reported' = TRUE
    /\ all_results' = <<>>
    /\ UNCHANGED <<cfgVars, retry, exit, interrupted, rt, timedOutUnits,
                   otherVars, laneVars, batches, submitted, threads, collected>>

\* the executor's work queue hands each item to exactly one thread
DequeuePeek(q) == q
Dequeue(q) == Tail(q)

\* a pool thread takes the next work item, enters run_test_batch and starts
\* the first harness invocation
LanePull(l, started) ==
    /\ l \in threads
    /\ lane[l].pc = "idle"
    /\ workQueue # <<>>
    /\ LET b == Head(workQueue)
       IN /\ workQueue' = Dequeue(workQueue)
          /\ futures' = [futures EXCEPT ![b].state = "running"]
          /\ runCount' = [runCount EXCEPT ![b] = @ + 1]
          /\ lane' = [lane EXCEPT
                        ![l] = BeginUnit(batches, b, 1, <<>>, started)]
    /\ UNCHANGED <<cfgVars, mainVars, rt, timedOutUnits, otherVars, mainPc, poolVars, idleSem, lock, results, recorded,
                   success>>

\* the current test class of a lane
LaneClassFirst(l) == batches[lane[l].batch][1]
LaneClass(l) == batches[lane[l].batch][lane[l].idx]

\* run_single_test, lines 76-97 after run_command returned `outcome`
UnitClassified(l, outcome, alive) ==
    LET st == RunSingleTestStatus(RunCommandRc(outcome))
    IN lane' = [lane EXCEPT ![l].pc = "lock",
                            ![l].status = st,
                            ![l].proc = alive,
                            ![l].out = Append(@, [class |-> LaneClass(l),
                                                  status |-> st])]

\* subprocess.run(timeout=t): with t <= 0 the deadline has passed before the
\* first wait, and TimeoutExpired is raised whatever the process does
CanReturnInTime(t) == t > 0

\* run_command, line 48: the process returned within the timeout
InvocationExit(l, code) ==
    /\ lane[l].pc = "wait"
    /\ CanReturnInTime(timeout)
    /\ UnitClassified(l, IF code = 0 THEN "exit0" ELSE "exit1", {})
    /\ UNCHANGED <<cfgVars, mainVars, rt, timedOutUnits, otherVars, mainPc, poolVars, workQueue, idleSem, lock, results,
                   futures, runCount, recorded, success>>

\* run_command, lines 49-50: TimeoutExpired
InvocationTimeout(l) ==
    /\ lane[l].pc = "wait"
    /\ UnitClassified(l, "timeout", KillChildOnly(lane[l].proc))
    /\ timedOutUnits' = timedOutUnits + 1
    /\ UNCHANGED <<cfgVars, mainVars, rt, otherVars, mainPc, poolVars, workQueue, idleSem, lock, results,
                   futures, runCount, recorded, success>>

\* run_test_batch, line 107: with self.lock
LockIgnored == TRUE
LockFree == ~lock
Acquire(l) ==
    /\ lane[l].pc = "lock"
    /\ LockFree
    /\ lock' = TRUE
    /\ lane' = [lane EXCEPT ![l].pc = "append"]
    /\ UNCHANGED <<cfgVars, mainVars, rt, timedOutUnits, otherVars, mainPc, poolVars, workQueue, idleSem, results,
                   futures, runCount, recorded, success>>

\* run_test_batch, lines 108-113
AppendResult(res, status, class) ==
    IF status = "passed" THEN [res EXCEPT !.passed = Append(@, class)]
    ELSE IF status = "failed" THEN [res EXCEPT !.failed = Append(@, class)]
    ELSE IF status = "timeout" THEN [res EXCEPT !.timed_out = Append(@, class)]
    ELSE res

Record(l) ==
    /\ lane[l].pc = "append"
    /\ results' = AppendResult(results, lane[l].status, LaneClass(l))
    /\ lane' = [lane EXCEPT ![l].pc = "print"]
    /\ UNCHANGED <<cfgVars, mainVars, rt, timedOutUnits, otherVars, mainPc, poolVars, workQueue, idleSem, lock,
                   futures, runCount, recorded, success>>

\* run_test_batch, lines 116-117 and the end of the with-block; then either
\* the next iteration of the for loop starts its harness invocation, or
\* (line 119) the batch's results are returned: to the future of a pool
\* thread, or to TestRunner.run in sequential mode
PrintRelease(l, started) ==
    /\ lane[l].pc = "print"
    /\ lock' = FALSE
    /\ recorded' = recorded + 1
    /\ IF lane[l].idx < Len(batches[lane[l].batch])
       THEN /\ lane' = [lane EXCEPT
                          ![l] = BeginUnit(batches, lane[l].batch,
                                           lane[l].idx + 1, lane[l].out,
                                           started)]
            /\ UNCHANGED <<futures, idleSem, mainPc, all_results>>
       ELSE /\ futures' = [futures EXCEPT ![lane[l].batch] =
                             [state |-> "finished", result |-> lane[l].out]]
            /\ lane' = [lane EXCEPT ![l] = IdleLane]
            /\ IF l = 0
               THEN /\ mainPc' = "summary"
                    /\ all_results' = lane[l].out
                    /\ UNCHANGED idleSem
               ELSE /\ idleSem' = idleSem + 1
                    /\ UNCHANGED <<mainPc, all_results>>
    /\ UNCHANGED <<cfgVars, mainVars, rt, timedOutUnits, otherVars, batches, submitted, threads, collected, workQueue,
                   results, runCount, success>>

LaneStep(l) ==
    \/ \E started \in BOOLEAN : LanePull(l, started)
    \/ \E code \in ExitCodes : InvocationExit(l, code)
    \/ InvocationTimeout(l)
    \/ Acquire(l)
    \/ Record(l)
    \/ \E started \in BOOLEAN : PrintRelease(l, started)

MainStep ==
    \/ \E compiled \in BOOLEAN : RunStart(compiled)
    \/ RunParallelPlan
    \/ Submit
    \/ SubmitDone
    \/ \E b \in 1..MaxUnits : Collect(b)
    \/ RunParallelReturn
    \/ \E started \in BOOLEAN : RunSequential(started)
    \/ RunSummary

\* ------------------------------------------- run-all-tests.py: main, retry
\* main, lines 294-308 and 316-321: runner.run has returned; either build
\* retry_runner over runner.results["failed"], or exit on run's return value
RunReturnedOrCollecting == mainPc \in {"returned", "compile_failed", "collect"}
RunReturned == mainPc \in {"returned", "compile_failed"}
MainAfterRun(retry_failed) ==
    /\ script = "run-all-tests"
    /\ RunReturned
    /\ exit = <<>>
    /\ retry.pc = "none"
    /\ IF retry_failed /\ results.failed # <<>>
       THEN /\ retry' = [IdleRetry EXCEPT !.pc = "begin",
                                          !.retry_failed = retry_failed,
                                          !.tests = results.failed,
                                          !.max_workers = 1,
                                          !.timeout = timeout * 2]
            /\ UNCHANGED exit
       ELSE /\ exit' = IF success = <<TRUE>> THEN <<0>> ELSE <<1>>
            /\ retry' = [IdleRetry EXCEPT !.pc = "skipped",
                                          !.retry_failed = retry_failed]
    /\ UNCHANGED <<cfgVars, interrupted, reported, rt, timedOutUnits, otherVars,
                   allVars>>

\* retry_runner.run_test_batch, lines 103-117, for the current class: the
\* retry runner's own lock is never contended
RetryRecorded(outcome, alive) ==
    LET st == RunSingleTestStatus(RunCommandRc(outcome))
    IN [retry EXCEPT !.pc = "begin",
                     !.idx = @ + 1,
                     !.results = AppendResult(@, st, retry.tests[retry.idx + 1]),
                     !.proc = alive]

\* main, line 308: the next class of the retry batch is started on the main
\* thread; after the last one, lines 310-321
RetryNext(started) ==
    /\ retry.pc = "begin"
    /\ exit = <<>>
    /\ IF retry.idx < Len(retry.tests)
       THEN /\ retry' = IF started
                        THEN [retry EXCEPT !.pc = "wait", !.proc = Procs]
                        ELSE RetryRecorded("error", {})
            /\ UNCHANGED <<exit, success>>
       ELSE /\ retry' = [retry EXCEPT !.pc = "done"]
            /\ success' = <<Len(retry.results.failed) = 0>>
            /\ exit' = IF Len(retry.results.failed) = 0 THEN <<0>> ELSE <<1>>
    /\ UNCHANGED <<cfgVars, interrupted, reported, rt, timedOutUnits, otherVars,
                   mainPc, laneVars, poolVars>>

\* run_command, line 48, in the retry pass
RetryExit(code) ==
    /\ retry.pc = "wait"
    /\ CanReturnInTime(retry.timeout)
    /\ retry' = RetryRecorded(IF code = 0 THEN "exit0" ELSE "exit1", {})
    /\ UNCHANGED <<cfgVars, exit, interrupted, reported, rt, timedOutUnits,
                   otherVars, allVars>>

\* run_command, lines 49-50, in the retry pass
RetryTimeout ==
    /\ retry.pc = "wait"
    /\ retry' = RetryRecorded("timeout", KillChildOnly(retry.proc))
    /\ timedOutUnits' = timedOutUnits + 1
    /\ UNCHANGED <<cfgVars, exit, interrupted, reported, rt, otherVars, allVars>>

\* an exception that left main (lines 124, 128): traceback, exit status 1
Traceback ==
    /\ mainPc = "crashed"
    /\ exit = <<>>
    /\ exit' = <<1>>
    /\ UNCHANGED <<cfgVars, retry, interrupted, reported, rt, timedOutUnits,
                   otherVars, allVars>>

\* the main thread is inside run_parallel's with-block
InExecutorBlock == mainPc \in {"submit", "collect"}

\* main.signal_handler, lines 281-283: SIGINT runs sys.exit(1) in the main
\* thread.  Inside the with-block SystemExit first runs the executor's
\* __exit__, shutdown(wait=True); elsewhere it unwinds main: a subprocess.run
\* the main thread is waiting in kills its child, a held lock is released
Sigint ==
    /\ script = "run-all-tests"
    /\ ~interrupted
    /\ exit = <<>>
    /\ mainPc # "crashed"
    /\ interrupted' = TRUE
    /\ IF InExecutorBlock
       THEN /\ mainPc' = "shutdown"
            \* the frame of run_parallel unwinds: its results are dropped
            /\ collected' = {}
            /\ all_results' = <<>>
            /\ UNCHANGED <<exit, lane, lock, recorded, retry>>
       ELSE /\ mainPc' = "interrupted"
            /\ UNCHANGED <<collected, all_results>>
            /\ exit' = <<1>>
            /\ lane' = [lane EXCEPT ![0] =
                          [IdleLane EXCEPT !.proc = KillChildOnly(lane[0].proc)]]
            /\ lock' = IF lane[0].pc \in {"append", "print"} THEN FALSE ELSE lock
            /\ recorded' = IF lane[0].pc = "print" THEN recorded + 1
                           ELSE recorded
            /\ retry' = IF retry.pc \in {"begin", "wait"}
                        THEN [IdleRetry EXCEPT !.pc = "aborted",
                                               !.proc = KillChildOnly(retry.proc)]
                        ELSE retry
    /\ UNCHANGED <<cfgVars, reported, rt, timedOutUnits, otherVars, batches,
                   submitted, threads, results, futures, runCount, workQueue,
                   idleSem, success>>

\* shutdown(wait=True) joins the pool threads, which leave only when the
\* work queue is empty; then SystemExit reaches the interpreter
ShutdownDone ==
    /\ mainPc = "shutdown"
    /\ workQueue = <<>>
    /\ \A l \in PoolLanes : lane[l].pc = "idle"
    /\ mainPc' = "interrupted"
    /\ exit' = <<1>>
    /\ UNCHANGED <<cfgVars, retry, interrupted, reported, rt, timedOutUnits,
                   otherVars, laneVars, poolVars, success>>

RetryStep ==
    \/ \E retry_failed \in BOOLEAN : MainAfterRun(retry_failed)
    \/ \E started \in BOOLEAN : RetryNext(started)
    \/ \E code \in ExitCodes : RetryExit(code)
    \/ RetryTimeout
    \/ Traceback
    \/ ShutdownDone

\* ----------------------------------------------------------- run-tests.py
\* run_command, lines 13-28: only subprocess.TimeoutExpired is caught; any
\* other exception of subprocess.run leaves the function
RtRaises(outcome) == outcome = "error"
RtRunCommandRc(outcome) ==
    CASE outcome = "timeout" -> 0 - 1
      [] outcome = "exit0"   -> 0
      [] outcome = "exit1"   -> 1

\* main, lines 142-149, run_batch_test, lines 109-123, and the compile step of
\* run_all_tests_individually, lines 55-63
RtStart(outcome) ==
    /\ script = "run-tests"
    /\ rt.pc = "start"
    /\ LET rc == RtRunCommandRc(outcome)
       IN rt' = CASE mode = "other" -> [rt EXCEPT !.pc = "usage", !.exit = <<1>>]
                  [] mode = "batch" ->
                       IF RtRaises(outcome)
                       THEN [rt EXCEPT !.pc = "escaped", !.exit = <<1>>]
                       ELSE [rt EXCEPT !.pc = "exited",
                                       !.exit = IF rc = 0 THEN <<0>> ELSE <<1>>]
                  [] mode = "individual" ->
                       IF RtRaises(outcome)
                       THEN [rt EXCEPT !.pc = "escaped", !.exit = <<1>>]
                       ELSE IF rc # 0
                       THEN [rt EXCEPT !.pc = "compile_failed", !.exit = <<1>>]
                       ELSE [rt EXCEPT !.pc = "loop"]
    /\ UNCHANGED <<cfgVars, mainVars, timedOutUnits, otherVars, allVars>>

\* run_all_tests_individually, lines 69-86: one test class
RtUnit(outcome) ==
    /\ rt.pc = "loop"
    /\ rt.i < N
    /\ LET rc == RtRunCommandRc(outcome)
       IN rt' = IF RtRaises(outcome)
                THEN [rt EXCEPT !.pc = "unit_escaped", !.exit = <<1>>]
                ELSE IF rc = 0 - 1
                THEN [rt EXCEPT !.i = @ + 1, !.timed_out = @ + 1]
                ELSE IF rc = 0
                THEN [rt EXCEPT !.i = @ + 1, !.passed = @ + 1]
                ELSE [rt EXCEPT !.i = @ + 1, !.failed = @ + 1]
    /\ UNCHANGED <<cfgVars, mainVars, timedOutUnits, otherVars, allVars>>

\* run_all_tests_individually, lines 88-107, and main, lines 151-156
RtFinish ==
    /\ rt.pc = "loop"
    /\ rt.i = N
    /\ rt' = [rt EXCEPT !.pc = "exited",
                        !.exit = IF rt.failed = 0 /\ rt.timed_out = 0
                                 THEN <<0>> ELSE <<1>>]
    /\ UNCHANGED <<cfgVars, mainVars, timedOutUnits, otherVars, allVars>>

RtStep ==
    \/ \E outcome \in {"exit0", "exit1", "timeout", "error"} : RtStart(outcome)
    \/ \E outcome \in {"exit0", "exit1", "timeout", "error"} : RtUnit(outcome)
    \/ RtFinish

\* ------------------------------------------------------ run-tests-ci.py
\* run_command_with_timeout, lines 77-92: Popen starts the shell in a session
\* of its own (os.setsid); an exception gives the result (-2, str(e))
StartedCmd(started) ==
    IF started
    THEN [IdleCmd EXCEPT !.pc = "check", !.alive = Procs]
    ELSE [IdleCmd EXCEPT !.pc = "returned", !.rc = 0 - 2]

CmdActive == cmd.pc \in {"check", "readline", "poll", "drain"}

\* os.killpg(os.getpgid(process.pid), SIGTERM), line 107: the signal goes to
\* every process of the child's group, which the descendant inherited;
\* SIGTERM is taken to end a process that receives it
InChildGroup(p) == p \in {"child", "desc"}
KillGroup(alive) == {p \in alive : ~InChildGroup(p)}
\* the processes the signal of killpg reaches: those of the child's group
\* among the invocation's own and the ones the runner did not start
KillpgTargets(alive) == {p \in alive \cup NotSpawned : InChildGroup(p)}

\* lines 95-108: the timeout check at the top of the loop
CmdCheck ==
    /\ cmd.pc = "check"
    /\ IF cmd.timeUp
       THEN cmd' = [cmd EXCEPT !.pc = "returned",
                               !.rc = 0 - 1,
                               !.out = NoMarkers,
                               !.viaTimeout = TRUE,
                               !.exitedAtKill = ("child" \notin cmd.alive),
                               !.signalled = KillpgTargets(cmd.alive),
                               !.alive = KillGroup(cmd.alive)]
       ELSE cmd' = [cmd EXCEPT !.pc = "readline"]
    /\ UNCHANGED <<cfgVars, mainVars, rt, timedOutUnits, allVars, ci, safe>>

\* lines 111-118: process.stdout.readline() returns when a line is in the
\* pipe, or at end of file, which is when no process holds the pipe open
ReadlineReturns == cmd.lineReady \/ cmd.alive = {}
CmdReadline ==
    /\ cmd.pc = "readline"
    /\ ReadlineReturns
    /\ cmd' = [cmd EXCEPT !.pc = "poll", !.lineReady = FALSE]
    /\ UNCHANGED <<cfgVars, mainVars, rt, timedOutUnits, allVars, ci, safe>>

\* lines 121-129: process.poll(), then the sleep before the next iteration
CmdPoll ==
    /\ cmd.pc = "poll"
    /\ cmd' = [cmd EXCEPT !.pc = IF "child" \notin cmd.alive
                                 THEN "drain" ELSE "check"]
    /\ UNCHANGED <<cfgVars, mainVars, rt, timedOutUnits, allVars, ci, safe>>

\* lines 123-131: process.stdout.read() returns at end of file; the result is
\* the child's exit code and the captured output
CmdDrain(out) ==
    /\ cmd.pc = "drain"
    /\ cmd.alive = {}
    /\ cmd' = [cmd EXCEPT !.pc = "returned", !.rc = cmd.exitCode, !.out = out,
                          !.lineReady = FALSE]
    /\ UNCHANGED <<cfgVars, mainVars, rt, timedOutUnits, allVars, ci, safe>>

\* the harness: a process writes a line of output
ProcWrite ==
    /\ CmdActive
    /\ cmd.alive # {}
    /\ ~cmd.lineReady
    /\ cmd' = [cmd EXCEPT !.lineReady = TRUE]
    /\ UNCHANGED <<cfgVars, mainVars, rt, timedOutUnits, allVars, ci, safe>>

\* the harness: a process of the invocation exits on its own
ProcExit(p, code) ==
    /\ CmdActive
    /\ p \in cmd.alive
    /\ cmd' = [cmd EXCEPT !.alive = @ \ {p},
                          !.exitCode = IF p = "child" THEN code ELSE @]
    /\ UNCHANGED <<cfgVars, mainVars, rt, timedOutUnits, allVars, ci, safe>>

\* the clock passes start_time + timeout
Tick ==
    /\ CmdActive
    /\ ~cmd.timeUp
    /\ cmd' = [cmd EXCEPT !.timeUp = TRUE]
    /\ UNCHANGED <<cfgVars, mainVars, rt, timedOutUnits, allVars, ci, safe>>

\* CITestRunner.run_test_batch, lines 208-227
CIClassify(rc, out, n) ==
    IF rc = 0 - 1
    THEN [passed |-> 0, failed |-> n, skipped |-> 0]
    ELSE IF out.success
    THEN [passed |-> n, failed |-> 0, skipped |-> 0]
    ELSE IF out.completed # "absent"
    THEN IF out.completed = "match"
         THEN [passed |-> out.n - out.m, failed |-> out.m, skipped |-> 0]
         ELSE [passed |-> 0, failed |-> 0, skipped |-> 0]
    ELSE [passed |-> 0, failed |-> n, skipped |-> 0]

\* run_tests, lines 245-246: the batches of the for loop
CIBatches == Slices(all_tests, batch_size)

\* run_tests, lines 229-235 and compile_tests, lines 137-147
CIStart(started) ==
    /\ script = "run-tests-ci"
    /\ ci.pc = "start"
    /\ ci' = [ci EXCEPT !.pc = "compiling"]
    /\ cmd' = StartedCmd(started)
    /\ UNCHANGED <<cfgVars, mainVars, rt, timedOutUnits, allVars, safe>>

\* compile_tests, lines 149-156: any return code other than 0 (the exit code
\* of Gradle, -1 of the timeout, -2 of an exception) is a failed compilation
CompileNotTimedOut(rc) == rc # 0 - 1
CompileSucceeded(rc) == rc = 0

\* compile_tests, lines 149-156 and run_tests, lines 235-242
CICompileReturn ==
    /\ ci.pc = "compiling"
    /\ cmd.pc = "returned"
    /\ cmd' = IdleCmd
    /\ IF ~CompileSucceeded(cmd.rc)
       THEN ci' = [ci EXCEPT !.pc = "compile_failed", !.exit = <<1>>]
       ELSE ci' = [ci EXCEPT !.pc = "loop", !.total_tests = N]
    /\ UNCHANGED <<cfgVars, mainVars, rt, timedOutUnits, allVars, safe>>

\* run_tests, lines 245-252 (next batch: run_test_batch, lines 199-206) and
\* lines 267-270 (after the loop); range() raises ValueError for a step of 0
CILoop(started) ==
    /\ ci.pc = "loop"
    /\ IF batch_size = 0
       THEN /\ ci' = [ci EXCEPT !.pc = "crashed", !.exit = <<1>>]
            /\ UNCHANGED cmd
       ELSE IF ci.i < Len(CIBatches)
       THEN /\ ci' = [ci EXCEPT !.pc = "running"]
            /\ cmd' = StartedCmd(started)
       ELSE /\ ci' = [ci EXCEPT !.pc = "exited",
                                !.exit = IF ci.failed = 0 THEN <<0>> ELSE <<1>>]
            /\ UNCHANGED cmd
    /\ UNCHANGED <<cfgVars, mainVars, rt, timedOutUnits, allVars, safe>>

\* run_test_batch, lines 208-227 and run_tests, lines 252-261
CIBatchReturn ==
    /\ ci.pc = "running"
    /\ cmd.pc = "returned"
    /\ LET r == CIClassify(cmd.rc, cmd.out, Len(CIBatches[ci.i + 1]))
       IN ci' = [ci EXCEPT !.pc = "loop",
                           !.i = @ + 1,
                           !.passed = @ + r.passed,
                           !.failed = @ + r.failed,
                           !.skipped = @ + r.skipped]
    /\ cmd' = IdleCmd
    /\ timedOutUnits' = IF cmd.viaTimeout
                        THEN timedOutUnits + Len(CIBatches[ci.i + 1])
                        ELSE timedOutUnits
    /\ UNCHANGED <<cfgVars, mainVars, rt, allVars, safe>>

CmdStep ==
    \/ CmdCheck
    \/ CmdReadline
    \/ CmdPoll
    \/ \E out \in Outputs : CmdDrain(out)

CIStep ==
    \/ \E started \in BOOLEAN : CIStart(started)
    \/ CICompileReturn
    \/ \E started \in BOOLEAN : CILoop(started)
    \/ CIBatchReturn

HarnessStep ==
    \/ ProcWrite
    \/ \E p \in Procs, code \in ExitCodes : ProcExit(p, code)

\* ---------------------------------------------------- run-tests-safe.py
\* SafeTestRunner.run_test_class, lines 76-98: the status of the result
SafeStatus(outcome) ==
    CASE outcome = "exit0"   -> "passed"
      [] outcome = "exit1"   -> "failed"
      [] outcome = "timeout" -> "timeout"
      [] outcome = "error"   -> "error"

\* run_test_class, lines 90-94: subprocess.run killed the direct child, then
\* pkill -f gradle signals every process whose command line holds "gradle"
\* (the gradlew script and the Gradle JVMs it started, and any Gradle process
\* of another build)
MatchesGradle(p) == p \in {"child", "desc", "other_gradle"}
PkillGradle(alive) == {p \in KillChildOnly(alive) : ~MatchesGradle(p)}
\* the processes pkill signals
PkillTargets(alive) ==
    {p \in KillChildOnly(alive) \cup NotSpawned : MatchesGradle(p)}

\* run_batch, lines 109-110: the batches of the for loop
SafeBatches == Slices(all_tests, batch_size)

\* main, lines 209-238: compile, discover, enter run_batch
SafeStart(outcome) ==
    /\ script = "run-tests-safe"
    /\ safe.pc = "start"
    /\ safe' = IF outcome = "error"
               THEN [safe EXCEPT !.pc = "crashed", !.exit = <<1>>]
               ELSE IF outcome # "exit0"
               THEN [safe EXCEPT !.pc = "compile_failed", !.exit = <<1>>]
               ELSE IF N = 0
               THEN [safe EXCEPT !.pc = "no_tests", !.exit = <<1>>]
               ELSE IF batch_size = 0
               THEN [safe EXCEPT !.pc = "crashed", !.exit = <<1>>]
               ELSE [safe EXCEPT !.pc = "loop"]
    /\ UNCHANGED <<cfgVars, mainVars, rt, timedOutUnits, allVars, ciVars>>

\* run_batch, lines 109-118 (next test class: run_test_class, lines 54-73)
\* and main, lines 240-247 (after run_batch)
SafeCount(sf, status) ==
    IF status = "passed" THEN [sf EXCEPT !.total_passed = @ + 1]
    ELSE IF status = "failed" THEN [sf EXCEPT !.total_failed = @ + 1]
    ELSE [sf EXCEPT !.total_skipped = @ + 1]

\* run_batch, lines 118-130: append the result, update the counters, move on
SafeRecorded(outcome, alive) ==
    LET st == SafeStatus(outcome)
        cls == SafeBatches[safe.i + 1][safe.j + 1]
        last == safe.j + 1 >= Len(SafeBatches[safe.i + 1])
        counted == SafeCount(safe, st)
    IN [counted EXCEPT !.pc = "loop",
                       !.results = Append(@, [class |-> cls, status |-> st]),
                       !.proc = alive,
                       !.i = IF last THEN @ + 1 ELSE @,
                       !.j = IF last THEN 0 ELSE @ + 1]

SafeNext(started) ==
    /\ safe.pc = "loop"
    /\ safe' = IF safe.i >= Len(SafeBatches)
               THEN [safe EXCEPT !.pc = "exited", !.proc = {},
                                 !.exit = IF safe.total_failed = 0
                                          THEN <<0>> ELSE <<1>>]
               ELSE IF started
               THEN [safe EXCEPT !.pc = "wait", !.proc = Procs]
               ELSE SafeRecorded("error", {})
    /\ UNCHANGED <<cfgVars, mainVars, rt, timedOutUnits, allVars, ciVars>>

\* run_test_class, lines 67-88: the process returned within the timeout
SafeExit(code) ==
    /\ safe.pc = "wait"
    /\ safe' = SafeRecorded(IF code = 0 THEN "exit0" ELSE "exit1", {})
    /\ UNCHANGED <<cfgVars, mainVars, rt, timedOutUnits, allVars, ciVars>>

\* run_test_class, lines 90-95: TimeoutExpired
SafeTimeout ==
    /\ safe.pc = "wait"
    /\ safe' = SafeRecorded("timeout", PkillGradle(safe.proc))
    /\ timedOutUnits' = timedOutUnits + 1
    /\ UNCHANGED <<cfgVars, mainVars, rt, allVars, ciVars>>

SafeStep ==
    \/ \E outcome \in {"exit0", "exit1", "timeout", "error"} : SafeStart(outcome)
    \/ \E started \in BOOLEAN : SafeNext(started)
    \/ \E code \in ExitCodes : SafeExit(code)
    \/ SafeTimeout

Next ==
    \/ MainStep
    \/ \E l \in Lanes : LaneStep(l)
    \/ CmdStep
    \/ CIStep
    \/ HarnessStep
    \/ Tick
    \/ SafeStep
    \/ RetryStep
    \/ Sigint
    \/ RtStep

Spec == Init /\ [][Next]_vars

\* ------------------------------------------------------------- fair runs
\* Threads of the interpreter are scheduled fairly, a subprocess.run with a
\* timeout always returns, and the clock advances; nothing is assumed of what
\* the harness processes do (HarnessStep) or of the operator (Sigint).  The liveness checks use a smaller
\* unit bound.
MaxUnitsLive == 2
InitLive == Init /\ N <= MaxUnitsLive
Fairness ==
    /\ WF_vars(MainStep)
    /\ \A l \in Lanes : WF_vars(LaneStep(l))
    /\ WF_vars(CmdStep)
    /\ WF_vars(CIStep)
    /\ WF_vars(Tick)
    /\ WF_vars(SafeStep)
    /\ WF_vars(RetryStep)
    /\ WF_vars(RtStep)
FairSpec == InitLive /\ [][Next]_vars /\ Fairness

\* ------------------------------------------------------------ properties
Total(res) == Len(res.passed) + Len(res.failed) + Len(res.timed_out)
BusyLanes == {l \in Lanes : lane[l].batch # 0}
InFlight == {l \in Lanes : lane[l].pc = "wait"}
InCritical == {l \in Lanes : lane[l].pc \in {"append", "print"}}
PrimaryDone == mainPc \in {"summary", "returned"}

\* C1: in parallel mode no batch is held by two lanes, a batch a lane holds
\* is no longer in the work queue (it cannot be handed out again), the queue
\* never holds a batch twice, and no test class is being executed by two
\* lanes at once.
C1_BatchOwnedByOneLane ==
    mode = "parallel" =>
      /\ \A l1, l2 \in BusyLanes : l1 # l2 => lane[l1].batch # lane[l2].batch
      /\ \A l \in BusyLanes : lane[l].batch \notin Range(workQueue)
      /\ \A i, j \in 1..Len(workQueue) : i # j => workQueue[i] # workQueue[j]
      /\ \A l1, l2 \in InFlight : l1 # l2 => LaneClass(l1) # LaneClass(l2)
      /\ \A b \in 1..Len(runCount) : runCount[b] <= 1
C1_Witness ==
    /\ mode = "parallel"
    /\ \E l1, l2 \in InFlight : l1 # l2 /\ lane[l1].batch # lane[l2].batch
    /\ workQueue # <<>>

\* C2: under fair scheduling a parallel run whose pool was created returns
\* from run_parallel unless the operator interrupts it, and when it has
\* returned every planned batch has been run through run_test_batch exactly
\* once and has finished.
C2_EveryBatchExactlyOnce ==
    /\ (mainPc = "submit") ~> (mainPc = "summary" \/ interrupted)
    /\ [](mode = "parallel" /\ PrimaryDone =>
            \A b \in 1..Len(batches) :
                runCount[b] = 1 /\ futures[b].state = "finished")
C2_Witness ==
    /\ mode = "parallel"
    /\ mainPc = "returned"
    /\ Len(batches) >= 2
    /\ max_workers = 2
    /\ \A b \in 1..Len(batches) : runCount[b] = 1

\* C3: in a parallel run at most max_workers pool lanes hold a batch and at
\* most max_workers harness invocations are in flight; a lane takes a batch
\* only when it holds none, and gives one up only when that batch's future
\* has finished.
C3_BoundedLanes ==
    /\ [](mode = "parallel" =>
            /\ Cardinality(BusyLanes) <= Max(max_workers, 0)
            /\ Cardinality(InFlight) <= Max(max_workers, 0)
            /\ Cardinality(threads) <= Max(max_workers, 0))
    /\ [][\A l \in PoolLanes :
            lane'[l].batch # lane[l].batch =>
               \/ lane[l].batch = 0 /\ lane[l].pc = "idle"
               \/ /\ lane'[l].batch = 0
                  /\ futures'[lane[l].batch].state = "finished"
                  /\ Len(futures'[lane[l].batch].result)
                       = Len(batches[lane[l].batch])]_vars
C3_Witness ==
    /\ mode = "parallel"
    /\ max_workers = 1
    /\ Cardinality(InFlight) = 1
    /\ Len(workQueue) >= 2

\* C4: results is written only by a lane that is inside the critical
\* section, a lane inside it holds the lock, at most one lane is inside it,
\* and the totals hold exactly one entry per recorded outcome.
C4_RecordLinearizable ==
    /\ [](/\ Cardinality(InCritical) <= 1
          /\ (InCritical # {} => lock)
          /\ Total(results)
               = recorded + Cardinality({l \in Lanes : lane[l].pc = "print"}))
    /\ [][results' # results =>
            /\ lock
            /\ \E l \in InCritical :
                  /\ lane[l].pc = "append"
                  /\ lane'[l].pc = "print"
                  /\ Total(results') = Total(results) + 1]_vars
C4_Witness ==
    /\ \E l1, l2 \in Lanes : lane[l1].pc = "print" /\ lane[l2].pc = "lock"
    /\ recorded >= 1

\* C5: after a complete primary pass of TestRunner.run, in either mode,
\* passed + failed + timed_out + skipped equals the number of discovered
\* test classes.
C5_TotalConservation ==
    PrimaryDone =>
        Total(results) + Len(results.skipped) = N
C5_Witness ==
    /\ mainPc = "returned"
    /\ mode = "parallel"
    /\ max_workers = 2
    /\ Len(results.passed) >= 1
    /\ Len(results.failed) >= 1
    /\ Len(results.timed_out) >= 1

\* the batches the script has planned, once it has planned them
PlanMade ==
    CASE script = "run-all-tests" ->
            mode = "parallel" /\ mainPc \in {"submit", "collect", "summary",
                                             "returned"}
      [] script = "run-tests-ci" -> ci.pc \in {"running", "exited"}
      [] script = "run-tests-safe" -> safe.pc \in {"loop", "wait", "exited"}
      \* run-tests.py plans no batches
      [] script = "run-tests" -> FALSE
Plan ==
    CASE script = "run-all-tests" -> batches
      [] script = "run-tests-ci" -> CIBatches
      [] script = "run-tests-safe" -> SafeBatches
      [] script = "run-tests" -> <<>>
\* the batches are consecutive slices of units
Contiguous(plan, units) ==
    \A k \in 1..Len(plan) :
        /\ plan[k] # <<>>
        /\ \E i \in 0..Len(units) :
              plan[k] = SubSeq(units, i + 1, i + Len(plan[k]))

\* C6: whenever a script has planned its batches, for every worker count and
\* batch size the command line accepts, the batches are contiguous slices of
\* the discovered list and their concatenation in order is that list.
C6_PartitionComplete ==
    PlanMade => Concat(Plan) = all_tests /\ Contiguous(Plan, all_tests)
\* the same for sizes of at least 1, the sizes for which the loops' range()
\* is not empty
PartitionCompleteForPositiveSize ==
    (PlanMade /\ (script = "run-all-tests" \/ batch_size >= 1)) =>
        Concat(Plan) = all_tests /\ Contiguous(Plan, all_tests)

\* C7: once the timeout handling of an invocation has returned, no process
\* of that invocation (the direct child or a descendant) is alive, in any of
\* the three runners.
C7_WholeGroupTerminated ==
    /\ \A l \in Lanes :
          (lane[l].pc \in {"lock", "append", "print"}
             /\ lane[l].status = "timeout") => lane[l].proc = {}
    /\ (cmd.pc = "returned" /\ cmd.viaTimeout) => cmd.alive = {}
    /\ (safe.results # <<>>
          /\ safe.results[Len(safe.results)].status = "timeout")
         => safe.proc = {}

\* C8: an invocation of run_command_with_timeout whose child never exits
\* eventually returns the timeout result, whatever the child writes.
C8_HangIsTimedOut ==
    CmdActive ~> ((cmd.pc = "returned" /\ cmd.viaTimeout)
                    \/ "child" \notin cmd.alive)

\* C9: every unit attributed to an invocation that timed out is counted in
\* the runner's timed-out total, and not in passed, failed or skipped.
C9_TimedOutCounted ==
    /\ (script = "run-all-tests" /\ PrimaryDone) =>
          Len(results.timed_out) + Len(retry.results.timed_out)
            = timedOutUnits
    /\ (script = "run-tests-ci" /\ ci.pc \in {"loop", "exited"}) =>
          ci.timed_out = timedOutUnits
    /\ (script = "run-tests-safe" /\ safe.pc \in {"loop", "exited"}) =>
          safe.total_skipped
            = Cardinality({k \in 1..Len(safe.results) :
                             safe.results[k].status
                               \notin {"passed", "failed", "timeout"}})

\* C10: when the timeout branch is taken for a child that has already
\* exited, no live process is signalled and the result returned is the
\* child's real exit status, not the timeout result.
C10_ExitedHandleUntouched ==
    (cmd.pc = "returned" /\ cmd.viaTimeout /\ cmd.exitedAtKill) =>
        cmd.rc = cmd.exitCode /\ cmd.signalled = {}

\* the status a result dictionary holds for a unit
StatusIn(res, u) ==
    IF u \in Range(res.passed) THEN "passed"
    ELSE IF u \in Range(res.failed) THEN "failed"
    ELSE IF u \in Range(res.timed_out) THEN "timeout"
    ELSE "none"
PrimaryStatus(u) == StatusIn(results, u)
RetryStatus(u) == StatusIn(retry.results, u)
\* a retried unit's retry outcome supersedes its primary outcome
FinalStatus(u) ==
    IF RetryStatus(u) # "none" THEN RetryStatus(u) ELSE PrimaryStatus(u)
\* run-all-tests.py ran to its last line without being interrupted
RunComplete == script = "run-all-tests" /\ mainPc = "returned" /\ exit # <<>>
RetryComplete == RunComplete /\ retry.pc = "done"
Retried == {u \in 1..N : RetryStatus(u) # "none"}

\* C11: when the retry pass is over, a unit that passed on retry is listed in
\* the runner's totals (the ones the summary and the saved report are made
\* of) as passed and no longer as failed, and the totals still sum to the
\* number of units.
C11_RetrySupersedes ==
    RetryComplete =>
        /\ \A u \in Range(retry.results.passed) :
              u \in Range(results.passed) /\ u \notin Range(results.failed)
        /\ Total(results) = N

\* C12: a run that reaches its last line exits with 0 exactly when no unit's
\* final outcome (the retry outcome of a retried unit, else the primary one)
\* is failed or timed out.
C12_ExitZeroIffClean ==
    RunComplete =>
        (exit = <<0>>
           <=> \A u \in 1..N : FinalStatus(u) \notin {"failed", "timeout"})

\* C13: with --retry-failed, the units run in the retry pass are exactly the
\* units whose primary outcome is failed or timed out, each of them once.
C13_RetrySetIsFailedOrTimedOut ==
    (RunComplete /\ retry.retry_failed) =>
        /\ Retried = {u \in 1..N : PrimaryStatus(u) \in {"failed", "timeout"}}
        /\ Total(retry.results) = Cardinality(Retried)

\* harness invocations in flight: those of the lanes and that of the retry
InvocationsInFlight ==
    Cardinality(InFlight) + (IF retry.pc = "wait" THEN 1 ELSE 0)
RetryPhase == retry.pc \in {"begin", "wait", "done"}

\* C14: during the retry pass at most one harness invocation is in flight,
\* and for every --timeout value the command line accepts the timeout of the
\* retry runner is strictly greater than the primary one.
C14_RetrySequentialLongerTimeout ==
    RetryPhase =>
        /\ InvocationsInFlight <= 1
        /\ retry.max_workers = 1
        /\ retry.timeout > timeout
\* the same for positive timeouts, which doubling does make greater
RetrySequentialForPositiveTimeout ==
    (RetryPhase /\ timeout > 0) =>
        /\ InvocationsInFlight <= 1
        /\ retry.timeout = 2 * timeout
        /\ retry.timeout > timeout

\* C15: while the retry pass exists, the primary pass has drained: no lane
\* holds a batch or waits for a harness process, the work queue is empty,
\* every planned batch has run and finished, and the lock is free; the retry
\* set is the failed list of the drained totals; and no step taken during
\* the retry phase writes the primary totals.
C15_RetryAfterPrimaryDrained ==
    /\ [](RetryPhase =>
            /\ BusyLanes = {}
            /\ InFlight = {}
            /\ workQueue = <<>>
            /\ ~lock
            /\ \A b \in 1..Len(batches) :
                  futures[b].state = "finished" /\ runCount[b] = 1
            /\ Total(results) = N
            /\ retry.tests = results.failed)
    /\ [][RetryPhase => results' = results]_vars
C15_Witness ==
    /\ retry.pc = "wait"
    /\ mode = "parallel"
    /\ max_workers = 2
    /\ Len(batches) >= 2
    /\ Len(retry.tests) >= 2
    /\ retry.idx = 1

\* C16: in a parallel run, once the SIGINT handler has run no batch is
\* started (no lane enters run_test_batch), and the step that handles the
\* signal leaves no harness process of a lane alive.
C16_InterruptStopsLanes ==
    /\ [][(mode = "parallel" /\ interrupted) => runCount' = runCount]_vars
    /\ [][(mode = "parallel" /\ ~interrupted /\ interrupted') =>
            \A l \in Lanes : lane'[l].proc = {}]_vars

\* C17: a run the operator interrupted exits with a non-zero code, and the
\* summary has been printed and the results saved by then.
C17_InterruptFlushesTotals ==
    (interrupted /\ exit # <<>>) => (reported /\ exit # <<0>>)
\* the exit code alone
InterruptExitsNonZero == (interrupted /\ exit # <<>>) => exit = <<1>>

\* C18: no outcome of a harness invocation ends the loop over the units: in
\* run-all-tests.py the pass reaches its summary with one result record and
\* one total per unit, and in run-tests.py no exception of an invocation
\* leaves the loop and a finished individual run has counted every unit.
C18_NoUnitFailureStopsRun ==
    /\ (script = "run-all-tests" /\ mainPc = "summary") =>
          Len(all_results) = N /\ Total(results) = N
    /\ rt.pc # "unit_escaped"
    /\ (script = "run-tests" /\ mode = "individual" /\ rt.pc = "exited") =>
          rt.passed + rt.failed + rt.timed_out = N
\* the part of it that is about run-all-tests.py
NoUnitFailureStopsTestRunner ==
    (script = "run-all-tests" /\ mainPc = "summary") =>
        Len(all_results) = N /\ Total(results) = N

\* the results of the safe runner that hold a given status
SafeWith(statuses) ==
    {k \in 1..Len(safe.results) : safe.results[k].status \in statuses}
SafeCounted == script = "run-tests-safe" /\ safe.pc \in {"loop", "exited"}
SafeFinished == script = "run-tests-safe" /\ safe.pc = "exited"

\* C19: an invocation that could not be run is counted with the failures and
\* makes the run exit non-zero, under a status of its own: TestRunner gives
\* it the failed status, and in the safe runner every result whose status is
\* error is in total_failed and a finished run that has one exits with 1.
C19_InfrastructureErrorIsFailure ==
    /\ RunSingleTestStatus(RunCommandRc("error")) = "failed"
    /\ SafeStatus("error") \notin {SafeStatus("exit1"), SafeStatus("exit0")}
    /\ SafeCounted =>
          safe.total_failed = Cardinality(SafeWith({"failed", "error"}))
    /\ (SafeFinished /\ SafeWith({"error"}) # {}) => safe.exit = <<1>>

\* C20: a finished run of the safe runner or of the CI runner in which some
\* unit did not pass (failed, timed out, or could not be run) exits non-zero.
C20_NonPassingExitsNonZero ==
    /\ (SafeFinished /\ SafeWith({"failed", "timeout", "error"}) # {}) =>
          safe.exit = <<1>>
    /\ (script = "run-tests-ci" /\ ci.pc = "exited"
          /\ (ci.failed > 0 \/ timedOutUnits > 0)) => ci.exit = <<1>>
\* the part of it that is about the CI runner's counters
CINonPassingExitsNonZero ==
    (script = "run-tests-ci" /\ ci.pc = "exited"
       /\ (ci.failed > 0 \/ timedOutUnits > 0)) => ci.exit = <<1>>

\* ------------------------------------------------- classification of a batch
\* run_tests, lines 252-255: the step that adds the counts of one batch to
\* the totals, the number of classes in that batch, and the counts added
CIBatchAttributed == ci.pc = "running" /\ ci'.pc = "loop"
CIBatchLen == Len(CIBatches[ci.i + 1])
CIAddedPassed == ci'.passed - ci.passed
CIAddedFailed == ci'.failed - ci.failed

\* C21: a batch that returned within the timeout is attributed wholly Passed
\* on the success marker only if the exit code is the success code as well:
\* with the marker in the output, no count of completed tests, and an exit
\* code other than 0, the batch is not added to the passed total.
C21_PassedNeedsMarkerAndExitCode ==
    [][(/\ CIBatchAttributed
        /\ ~cmd.viaTimeout
        /\ cmd.out.success
        /\ cmd.out.completed = "absent"
        /\ CIAddedPassed = CIBatchLen)
       => cmd.rc = 0]_vars

\* C22: a batch that neither timed out nor carries the success marker is
\* split into N - M passed and M failed if its output has a parseable
\* "N tests completed, M failed", and in every other case, an unparseable
\* mention of completion included, all its classes are added to failed.
C22_CountMarkerOrAllFailed ==
    [][(/\ CIBatchAttributed
        /\ ~cmd.viaTimeout
        /\ ~cmd.out.success)
       => IF cmd.out.completed = "match"
          THEN /\ CIAddedPassed = cmd.out.n - cmd.out.m
               /\ CIAddedFailed = cmd.out.m
          ELSE /\ CIAddedPassed = 0
               /\ CIAddedFailed = CIBatchLen]_vars

\* C23: a batch whose output has neither the success marker nor a mention of
\* completed tests is classified by the exit code alone: exit code 0 adds
\* the whole batch to passed, any other exit code adds it to failed.
C23_NoMarkersExitCodeDecides ==
    [][(/\ CIBatchAttributed
        /\ ~cmd.viaTimeout
        /\ ~cmd.out.success
        /\ cmd.out.completed = "absent")
       => IF cmd.rc = 0
          THEN CIAddedPassed = CIBatchLen /\ CIAddedFailed = 0
          ELSE CIAddedPassed = 0 /\ CIAddedFailed = CIBatchLen]_vars

\* run_tests, lines 245-252: the classes of the batches already run
CIProcessed == Len(Concat(SubSeq(CIBatches, 1, ci.i)))
CICounted == ci.passed + ci.failed + ci.timed_out + ci.skipped

\* C24: in the CI runner, with a batch size of at least 1, after each batch
\* passed + failed + timed_out + skipped is the number of classes in the
\* batches run so far, and it is total_tests when the run has ended.
C24_CIConservation ==
    (script = "run-tests-ci" /\ batch_size >= 1
       /\ ci.pc \in {"loop", "running", "exited"})
    => /\ CICounted = CIProcessed
       /\ ci.pc = "exited" => CICounted = ci.total_tests

\* ------------------------------------------------------- the default plan
\* the planning steps of run-all-tests.py on their own, over catalogs large
\* enough for a default batch size above 1 (len // (workers * 4) >= 2)
MaxPlanUnits == 16

PlanInit ==
    /\ script = "run-all-tests"
    /\ disc = IdleDisc
    /\ N \in 0..MaxPlanUnits
    /\ mode = "parallel"
    /\ max_workers \in WorkerCounts
    /\ timeout = DefaultTimeout
    /\ batch_size = 0
    /\ InitAll
    /\ InitCI
    /\ InitSafe
    /\ InitMain
    /\ InitRt
    /\ timedOutUnits = 0

PlanNext ==
    \/ \E compiled \in BOOLEAN : RunStart(compiled)
    \/ RunParallelPlan

PlanSpec == PlanInit /\ [][PlanNext]_vars

\* C25: without an explicit batch size the plan of run_parallel uses
\* s = max(1, floor(|units| / (workers * 4))): for at least one unit and at
\* least one worker there are ceil(|units| / s) batches, every batch but the
\* last has exactly s units and the last has between 1 and s.
C25_DefaultBatchSize ==
    (script = "run-all-tests" /\ mainPc = "submit"
       /\ N >= 1 /\ max_workers >= 1)
    => LET s == Max(1, N \div (max_workers * 4))
           k == Len(batches)
       IN /\ k = (N + s - 1) \div s
          /\ \A b \in 1..(k - 1) : Len(batches[b]) = s
          /\ Len(batches[k]) \in 1..s

\* a plan with batches of more than one unit and a shorter last batch
C25_Witness ==
    /\ script = "run-all-tests" /\ mainPc = "submit"
    /\ max_workers >= 1
    /\ Len(batches) >= 2
    /\ Len(batches[1]) >= 2
    /\ Len(batches[Len(batches)]) < Len(batches[1])

\* ------------------------------------------------- an explicit batch size
\* --batch-size of run-tests-ci.py and run-tests-safe.py; run-all-tests.py
\* has no such option
ExplicitSize ==
    script \in {"run-tests-ci", "run-tests-safe"} /\ batch_size >= 1

\* the plan has ceil(N / b) batches of b units, the last one possibly shorter
PlanShape(plan, n, b) ==
    /\ Len(plan) = (n + b - 1) \div b
    /\ \A k \in 1..(Len(plan) - 1) : Len(plan[k]) = b
    /\ Len(plan) >= 1 => Len(plan[Len(plan)]) \in 1..b

\* a finished run has gone through every batch of its plan
AllBatchesRun ==
    CASE script = "run-tests-ci" ->
            ci.pc = "exited" => ci.i = Len(CIBatches)
      [] script = "run-tests-safe" ->
            safe.pc = "exited" =>
               /\ safe.i = Len(SafeBatches)
               /\ [k \in 1..Len(safe.results) |-> safe.results[k].class]
                     = all_tests
      [] OTHER -> TRUE

\* C26: with an explicit batch size b >= 1 over N units the plan has
\* ceil(N / b) batches of size b, the last possibly smaller, a finished run
\* has executed every one of them, and its totals sum to N.
C26_ExplicitBatchSizeHonoured ==
    ExplicitSize =>
       /\ PlanMade => PlanShape(Plan, N, batch_size)
       /\ AllBatchesRun
       /\ SafeFinished =>
             safe.total_passed + safe.total_failed + safe.total_skipped = N
       /\ (script = "run-tests-ci" /\ ci.pc = "exited") =>
             ci.passed + ci.failed + ci.skipped = N
\* the same without the totals of the CI runner
ExplicitBatchSizePlanned ==
    ExplicitSize =>
       /\ PlanMade => PlanShape(Plan, N, batch_size)
       /\ AllBatchesRun
       /\ SafeFinished =>
             safe.total_passed + safe.total_failed + safe.total_skipped = N

\* --------------------------------------------------------- empty catalog
\* the script has gone past compilation and discovery and has ended
EndedAfterDiscovery ==
    CASE script = "run-all-tests" -> reported /\ exit # <<>> /\ ~interrupted
      [] script = "run-tests-ci" -> ci.pc = "exited"
      [] script = "run-tests-safe" -> safe.pc \in {"no_tests", "exited"}
      [] OTHER -> FALSE
ExitCode ==
    CASE script = "run-all-tests" -> exit
      [] script = "run-tests-ci" -> ci.exit
      [] script = "run-tests-safe" -> safe.exit
      [] OTHER -> rt.exit
\* no result of a harness invocation was recorded, and every total is zero
NothingRun ==
    /\ Total(results) = 0 /\ Total(retry.results) = 0
    /\ ci.i = 0 /\ ci.passed + ci.failed + ci.skipped + ci.timed_out = 0
    /\ safe.results = <<>>
    /\ safe.total_passed + safe.total_failed + safe.total_skipped = 0

\* C27: a run over an empty catalog plans no batch, invokes the harness for
\* no unit, ends with all totals zero and exits with code 0.
C27_EmptyCatalogIsNotAnError ==
    (N = 0 /\ EndedAfterDiscovery) =>
       /\ PlanMade => Plan = <<>>
       /\ NothingRun
       /\ ExitCode = <<0>>
\* the same for run-all-tests.py and run-tests-ci.py alone
EmptyCatalogExitsZero ==
    (N = 0 /\ EndedAfterDiscovery /\ script # "run-tests-safe") =>
       /\ PlanMade => Plan = <<>>
       /\ NothingRun
       /\ ExitCode = <<0>>

\* ------------------------------------------------ discovery, step by step
\* one run of a script from its discovery to the harness invocations it
\* names, over every set of files and every order of enumeration
DiscInit ==
    /\ script \in Scripts
    /\ N = 0
    /\ mode = "parallel" /\ max_workers = 1 /\ timeout = DefaultTimeout
    /\ batch_size \in (IF script \in {"run-tests-ci", "run-tests-safe"}
                       THEN 1..MaxBatch ELSE {0})
    /\ \E exists \in BOOLEAN, files \in SUBSET FileIds, is_ci \in BOOLEAN,
          root_matches \in BOOLEAN :
          /\ exists \/ files = {}
          /\ is_ci => script = "run-tests-ci"
          /\ disc = [IdleDisc EXCEPT !.pc = "start", !.exists = exists,
                                     !.files = files, !.is_ci = is_ci,
                                     !.root_matches = root_matches]
    /\ InitAll
    /\ InitCI
    /\ InitSafe
    /\ InitMain
    /\ InitRt
    /\ timedOutUnits = 0

discFrame == <<script, N, mode, max_workers, batch_size, timeout, mainVars,
               rt, timedOutUnits, allVars, otherVars>>

\* the run's call of its discovery function; run-tests-safe.py prints
\* "Error: Test directory not found" and returns [] (lines 32-34)
Discover(enum) ==
    /\ disc.pc = "start"
    /\ disc' = [disc EXCEPT !.pc = "discovered",
                            !.found = <<DiscoverTests(enum)>>,
                            !.missing_reported =
                                (script = "run-tests-safe" /\ ~disc.exists)]
    /\ UNCHANGED discFrame

\* another discovery over the unchanged source
Rediscover(enum) ==
    /\ disc.pc = "discovered"
    /\ Len(disc.found) < MaxDiscoveries
    /\ disc' = [disc EXCEPT !.found = Append(@, DiscoverTests(enum))]
    /\ UNCHANGED discFrame

\* what each script plans over the list it got
DiscPlan(tests) ==
    CASE script = "run-all-tests" -> Slices(tests, BatchSize(Len(tests), max_workers))
      [] script = "run-tests-ci" -> Slices(tests, batch_size)
      [] script = "run-tests-safe" -> Slices(tests, batch_size)
      \* run-tests.py: one loop over all classes
      [] script = "run-tests" -> IF tests = <<>> THEN <<>> ELSE <<tests>>

\* the exit status of a run whose list is empty: run-tests-safe.py exits with
\* 1 ("No tests found"), the other scripts go through their empty loops and
\* exit with 0
EmptyRunExit == IF script = "run-tests-safe" THEN 1 ELSE 0

\* from the discovered list to the plan, or to the end of an empty run
DiscProceed ==
    /\ disc.pc = "discovered"
    /\ LET tests == disc.found[1]
       IN disc' = [disc EXCEPT
                      !.pc = IF tests = <<>> THEN "exited" ELSE "planned",
                      !.total = Len(tests),
                      !.plan = DiscPlan(tests),
                      !.exit = IF tests = <<>> THEN <<EmptyRunExit>> ELSE <<>>]
    /\ UNCHANGED discFrame

\* the next batch: its classes are the ones named to the harness
DiscInvoke ==
    /\ disc.pc = "planned"
    /\ disc.i < Len(disc.plan)
    /\ disc' = [disc EXCEPT
                   !.i = @ + 1,
                   !.invoked = @ \cup Range(disc.plan[disc.i + 1]),
                   !.pc = IF disc.i + 1 = Len(disc.plan)
                          THEN "invoked" ELSE "planned"]
    /\ UNCHANGED discFrame

DiscNext ==
    \/ \E enum \in Enumerations(disc.files) : Discover(enum)
    \/ \E enum \in Enumerations(disc.files) : Rediscover(enum)
    \/ DiscProceed
    \/ DiscInvoke

DiscSpec == DiscInit /\ [][DiscNext]_vars

\* a list in strictly ascending order of class names
Ascending(s) == \A i \in 1..(Len(s) - 1) : s[i] < s[i + 1]

\* C28: every discovery over an unchanged set of files returns the same
\* list, in ascending order of identifiers, whatever the order in which the
\* directory enumerates its entries; for the discovery of each script.
C28_DiscoveryDeterministic ==
    \A k \in 1..Len(disc.found) :
        /\ disc.found[k] = disc.found[1]
        /\ Ascending(disc.found[k])
\* the same for the three scripts whose discovery ends with sorted()
SortingDiscoveryDeterministic ==
    script # "run-tests" =>
        \A k \in 1..Len(disc.found) :
            /\ disc.found[k] = disc.found[1]
            /\ Ascending(disc.found[k])

\* C29: under CI mode a file whose name matches an exclusion pattern of the
\* CI runner is in no discovered list, in no batch and in no harness
\* invocation, and total_tests counts the remaining classes only.
C29_ExcludedNeverRun ==
    (script = "run-tests-ci" /\ disc.is_ci) =>
       /\ \A f \in disc.files :
             MatchesExclusion(f) =>
                /\ \A k \in 1..Len(disc.found) : f \notin Range(disc.found[k])
                /\ \A b \in 1..Len(disc.plan) : f \notin Range(disc.plan[b])
                /\ f \notin disc.invoked
       /\ disc.pc \in {"planned", "invoked", "exited"} =>
             disc.total = Cardinality({f \in disc.files :
                                         ~MatchesExclusion(f)
                                         /\ f \in Range(disc.found[1])})

\* a CI run over files one of which matches a pattern, after its invocations
C29_Witness ==
    /\ script = "run-tests-ci" /\ disc.is_ci
    /\ \E f \in disc.files : MatchesExclusion(f)
    /\ disc.pc = "invoked"
    /\ disc.invoked # {}
    /\ disc.total = Cardinality(disc.invoked)

\* C30: a run whose test directory does not exist reports the missing source,
\* plans no batch, names no unit to the harness and exits non-zero.
C30_MissingRootIsFatal ==
    (~disc.exists /\ disc.pc = "exited") =>
       /\ disc.missing_reported
       /\ disc.plan = <<>>
       /\ disc.invoked = {}
       /\ disc.exit = <<1>>
\* the same for run-tests-safe.py alone
MissingRootStopsSafeRunner ==
    (~disc.exists /\ disc.pc = "exited" /\ script = "run-tests-safe") =>
       /\ disc.missing_reported
       /\ disc.plan = <<>>
       /\ disc.invoked = {}
       /\ disc.exit = <<1>>

\* ------------------------------------------------------ compile failure
\* the step in which the CI runner's compile command returns
CICompileReturned ==
    ci.pc = "compiling" /\ cmd.pc = "returned" /\ ci'.pc # "compiling"

\* C31: a compile step that fails (non-zero exit code, timeout, or a command
\* that could not be run) ends the run: no batch is planned, no unit outcome
\* is recorded, no retry is started, and the exit status is non-zero.
C31_CompileFailureIsFatal ==
    /\ [](mainPc = "compile_failed" =>
             /\ batches = <<>>
             /\ Total(results) = 0
             /\ retry.pc \in {"none", "skipped"}
             /\ Total(retry.results) = 0
             /\ exit \in {<<>>, <<1>>})
    /\ [](ci.pc = "compile_failed" =>
             /\ ci.exit = <<1>>
             /\ ci.i = 0 /\ ci.total_tests = 0
             /\ ci.passed + ci.failed + ci.skipped + ci.timed_out = 0)
    /\ [][(CICompileReturned /\ cmd.rc # 0) => ci'.pc = "compile_failed"]_vars
    /\ [](safe.pc = "compile_failed" =>
             safe.exit = <<1>> /\ safe.results = <<>>)
    /\ [](rt.pc = "compile_failed" =>
             rt.exit = <<1>> /\ rt.i = 0)

\* run-all-tests.py --retry-failed has exited after a failed compilation
C31_Witness ==
    /\ script = "run-all-tests"
    /\ mainPc = "compile_failed"
    /\ retry.retry_failed
    /\ exit = <<1>>

\* ------------------------------------------------------- outcome records
\* the test classes of a list of result records, in the list's order
Classes(recs) == [k \in 1..Len(recs) |-> recs[k].class]
\* run has the list of result records of a complete pass in hand
PassReturned == script = "run-all-tests" /\ mainPc = "summary"

\* C32: the list of records a complete primary pass returns holds exactly
\* one record for each discovered unit and none for anything else, and the
\* records run_test_batch returned for a batch are in the order of the
\* batch's units.
C32_OneRecordPerUnit ==
    /\ PassReturned =>
          /\ Len(all_results) = N
          /\ \A u \in 1..N :
                Cardinality({k \in 1..Len(all_results) :
                               all_results[k].class = u}) = 1
    /\ \A b \in 1..Len(futures) :
          futures[b].state = "finished" =>
             Classes(futures[b].result) = batches[b]

\* a parallel pass over several batches whose records came back out of the
\* order of the unit list
C32_Witness ==
    /\ PassReturned
    /\ mode = "parallel"
    /\ Len(batches) >= 2
    /\ Len(all_results) = N
    /\ all_results[1].class > all_results[2].class

\* -------------------------------------------------------- progress lines
\* run_test_batch, lines 116-117: a lane prints its progress line; the count
\* it prints is computed from self.results as they are at that moment
ProgressPrinted ==
    /\ interrupted' = interrupted
    /\ \E l \in Lanes : lane[l].pc = "print" /\ lane'[l] # lane[l]
ProgressValue == Total(results)

\* C33: under every interleaving the k-th progress line of a primary pass
\* prints the count k: the counts are 1, 2, ... in increasing order, none is
\* repeated or skipped, none exceeds the number of units, and a complete
\* pass has printed one line per unit.
C33_ProgressCountsInOrder ==
    /\ [][ProgressPrinted =>
            /\ ProgressValue = recorded + 1
            /\ recorded' = recorded + 1
            /\ ProgressValue <= N]_vars
    /\ []((script = "run-all-tests" /\ PrimaryDone) => recorded = N)

\* two pool threads, and the last progress line of the pass is about to be
\* printed
C33_Witness ==
    /\ mode = "parallel"
    /\ Cardinality(threads) >= 2
    /\ N >= 2
    /\ ProgressValue = N
    /\ \E l \in PoolLanes : lane[l].pc = "print"

\* ------------------------------------------------------- status lists
\* self.results["passed"], ["failed"] and ["timed_out"], one after the other
StatusLists == results.passed \o results.failed \o results.timed_out

\* C34: in every state of a primary pass no test class occurs twice in the
\* passed, failed and timed_out lists taken together (each list is free of
\* duplicates and no two of them share a class), and every class in them is
\* one of the discovered classes.
C34_StatusListsDisjoint ==
    /\ \A i, j \in 1..Len(StatusLists) :
          i # j => StatusLists[i] # StatusLists[j]
    /\ Range(StatusLists) \subseteq Range(all_tests)

\* a parallel pass that has a class in each of the three lists
C34_Witness ==
    /\ script = "run-all-tests" /\ mode = "parallel"
    /\ results.passed # <<>>
    /\ results.failed # <<>>
    /\ results.timed_out # <<>>

\* ------------------------------------------- parallel and sequential mode
\* the classes whose record in the returned list has a given status
RecordedAs(status) ==
    {all_results[k].class :
        k \in {i \in 1..Len(all_results) : all_results[i].status = status}}
\* run-all-tests.py has exited on the verdict of the primary pass: it was
\* not interrupted, compilation succeeded and there was no retry pass
ExitedOnPrimaryVerdict ==
    /\ script = "run-all-tests"
    /\ exit # <<>>
    /\ ~interrupted
    /\ mainPc # "compile_failed"
    /\ retry.pc \in {"none", "skipped"}
\* what the pass ends with is the same function of the units' harness
\* results in both modes: each list holds the classes whose harness result
\* has that status, every unit is in one of them, and the exit status is 0
\* exactly if no unit failed or timed out
SameAsSequential ==
    /\ PassReturned =>
          /\ Range(results.passed) = RecordedAs("passed")
          /\ Range(results.failed) = RecordedAs("failed")
          /\ Range(results.timed_out) = RecordedAs("timeout")
    /\ ExitedOnPrimaryVerdict =>
          /\ Range(StatusLists) = Range(all_tests)
          /\ exit = <<0>> <=>
                (results.failed = <<>> /\ results.timed_out = <<>>)

\* C35: for every worker count the command line accepts and every
\* interleaving, a parallel pass ends with the passed, failed and timed_out
\* sets and the exit verdict that the units' harness results determine, the
\* same as a sequential pass over those results.
C35_ParallelEqualsSequential == SameAsSequential
\* the same for worker counts of at least 1
ParallelEqualsSequentialForPositiveWorkers ==
    (mode = "sequential" \/ max_workers >= 1) => SameAsSequential

\* --------------------------------------------------- reach of the kill
\* run_test_class, lines 90-95: the step that handles a timeout
SafeTimedOut ==
    /\ safe.pc = "wait"
    /\ safe'.pc # "wait"
    /\ timedOutUnits' = timedOutUnits + 1

\* C36: the timeout handling signals only processes of the invocation that
\* timed out (its child and the child's descendants): never the runner
\* itself and never a process the runner did not start.
C36_KillReachesOnlyOwnProcesses ==
    /\ [](cmd.signalled \subseteq Procs)
    /\ [][SafeTimedOut => PkillTargets(safe.proc) \subseteq Procs]_vars
\* the same for run_command_with_timeout of run-tests-ci.py alone
KillpgReachesOnlyOwnGroup == cmd.signalled \subseteq Procs

\* ------------------------------------------------- reach of the exclusion
\* C37: the CI runner's discovery drops no unit whose identifier contains
\* no exclusion pattern, wherever the repository lies: under CI mode every
\* such *Test file is in the returned list, and outside CI mode every
\* *Test file is.
C37_OnlyMatchingUnitsExcluded ==
    (script = "run-tests-ci" /\ disc.exists) =>
       \A k \in 1..Len(disc.found) :
          \A f \in disc.files :
             (~PackageInfo(f) /\ (disc.is_ci => ~MatchesExclusion(f)))
                => f \in Range(disc.found[k])
\* the same for a repository whose own path contains no pattern, and for
\* every repository outside CI mode
OnlyMatchingUnitsExcludedUnderPlainRoot ==
    (script = "run-tests-ci" /\ disc.exists
        /\ (disc.is_ci => ~disc.root_matches)) =>
       \A k \in 1..Len(disc.found) :
          \A f \in disc.files :
             (~PackageInfo(f) /\ (disc.is_ci => ~MatchesExclusion(f)))
                => f \in Range(disc.found[k])

============================================================================
